---- MODULE Spec2Model ----
(***************************************************************************)
(* Model of the hortago service worker (src/sw.js): lifecycle (install,    *)
(* activate), the fetch handler with its three caching strategies, and     *)
(* the background-sync drain of the task queue; and of the page script     *)
(* (src/main.js): the record collections kept with localforage, the seller *)
(* and buyer forms, the notification of buyers and the radius filter.      *)
(*                                                                         *)
(* Platform interfaces the code calls (Cache, CacheStorage, fetch,         *)
(* IndexedDB) are modelled by what the platform does with the arguments    *)
(* the code passes them.                                                   *)
(***************************************************************************)
EXTENDS Integers, Sequences, FiniteSets, TLC

VARIABLES
  phase,      \* lifecycle of this worker: parsed, installed, redundant, activating, activated
  cacheKeys,  \* caches.keys(): names of the existing cache generations, in creation order
  store,      \* store[name][href]: the entry of cache `name` for a GET of href
  actKeys,    \* activate handler: the snapshot `keys` while the handler runs
  handlers,   \* one record per fetch event dispatched so far, in dispatch order
  puts,       \* cache.put calls whose promise has not settled yet
  lastOk,     \* history: lastOk[href] is the last ok network response networkFirst returned for a GET of href
  queue,      \* object store 'queue' of tasks-db, in key order
  drains,     \* one record per sync event dispatched so far
  sent,       \* sent[d]: the SYNC_DONE messages posted to the window clients by the pass of sync event d
  now,        \* Date.now() of the page
  products,   \* localforage item 'products'
  savedSearches,  \* localforage item 'savedSearches'
  users,      \* localforage item 'users'
  currentUser,    \* MarketplacePWA.currentUser
  permission, \* Notification.permission
  ops,        \* one record per call of a page handler started so far, in start order
  shown,      \* the Notification objects constructed so far
  found,      \* the calls of findUsersInRadius made so far, with what they returned
  pushes      \* one record per push event dispatched so far, with the showNotification calls of its handler

vars == <<phase, cacheKeys, store, actKeys, handlers, puts, lastOk, queue, drains, sent,
          now, products, savedSearches, users, currentUser, permission, ops, shown, found,
          pushes>>

routerVars == <<phase, cacheKeys, store, actKeys, handlers, puts, lastOk>>
syncVars == <<queue, drains, sent>>
pageVars == <<now, products, savedSearches, users, currentUser, permission, ops, shown, found>>

----------------------------------------------------------------------------
(* Bounds of the model *)

\* number of fetch events dispatched in one behaviour
MaxRequests == 2

\* number of tasks in the queue when the worker starts
MaxQueue == 3

\* number of sync events dispatched in one behaviour
MaxDrains == 2

\* number of calls of the page's handlers and managers started in one behaviour
MaxOps == 2

\* number of times the clock of the page advances in one behaviour
MaxClock == 1

\* number of saved searches in the collection when the page starts
MaxSearches == 2

\* number of users handed to one call of findUsersInRadius
MaxUsers == 2

\* number of push events dispatched in one behaviour
MaxPushes == 2

----------------------------------------------------------------------------
(* Constants of src/sw.js *)

VERSION == "v1.0.1"

RUNTIME_CACHE == "runtime-" \o VERSION
SHELL_CACHE == "shell-" \o VERSION

\* The version tag of the worker this one replaces, and its generations
OLD_VERSION == "v1.0.0"

OLD_RUNTIME_CACHE == "runtime-" \o OLD_VERSION
OLD_SHELL_CACHE == "shell-" \o OLD_VERSION

CacheNames == {SHELL_CACHE, RUNTIME_CACHE, OLD_SHELL_CACHE, OLD_RUNTIME_CACHE}

\* A URL is its href, a sequence of tokens: scheme, host parts, then one path token.
SelfOrigin == <<"https://", "app.example.org">>
API_BASE == <<"https://", "api.example.com">>

PathTokens == {"/index.html", "/manifest.webmanifest", "/styles.css", "/main.js",
               "/offline.html", "/logo.png", "/tasks", "/lib.js"}

Href(origin, path) == origin \o <<path>>

APP_SHELL == <<"/index.html", "/manifest.webmanifest", "/styles.css", "/main.js">>

OfflineUrl == Href(SelfOrigin, "/offline.html")

\* new URL(request.url).origin: everything before the path
RECURSIVE OriginOf(_)
OriginOf(href) ==
  IF href = <<>> \/ Head(href) \in PathTokens THEN <<>>
  ELSE <<Head(href)>> \o OriginOf(Tail(href))

\* String.prototype.startsWith
StartsWith(s, p) == Len(s) >= Len(p) /\ SubSeq(s, 1, Len(p)) = p

----------------------------------------------------------------------------
(* Requests and responses *)

Request(url, method, mode, destination) ==
  [url |-> url, method |-> method, mode |-> mode, destination |-> destination]

ApiOrigin == API_BASE
LookalikeOrigin == <<"https://", "api.example.com", ".evil.io">>
OtherOrigin == <<"https://", "cdn.example.net">>

\* The requests the pages of the application issue.
Requests ==
  { Request(Href(SelfOrigin, "/index.html"), "GET", "navigate", "document"),
    Request(Href(SelfOrigin, "/offline.html"), "GET", "navigate", "document"),
    Request(Href(SelfOrigin, "/main.js"), "GET", "no-cors", "script"),
    Request(Href(SelfOrigin, "/logo.png"), "GET", "no-cors", "image"),
    Request(Href(ApiOrigin, "/tasks"), "GET", "cors", ""),
    Request(Href(ApiOrigin, "/tasks"), "POST", "cors", ""),
    Request(Href(ApiOrigin, "/tasks"), "GET", "navigate", "document"),
    Request(Href(LookalikeOrigin, "/tasks"), "GET", "cors", ""),
    Request(Href(OtherOrigin, "/lib.js"), "GET", "no-cors", "script") }

Hrefs == { r.url : r \in Requests } \cup { Href(SelfOrigin, p) : p \in PathTokens }

\* A network or cached response; id tells responses apart (the index of the
\* fetch event whose network fetch produced it, 0 for one stored earlier).
Response(ok, id) == [kind |-> "response", ok |-> ok, id |-> id]

\* JavaScript undefined, as resolved by match() on a miss
Undefined == [kind |-> "undefined"]

IsResponse(x) == x.kind = "response"

\* A cache entry is the request/response pair handed to put
Entry(req, res) == [kind |-> "entry", req |-> req, res |-> res]
NoEntry == [kind |-> "none"]

EmptyCache == [u \in Hrefs |-> NoEntry]

GetRequest(url) == Request(url, "GET", "cors", "")

----------------------------------------------------------------------------
(* Cache and CacheStorage *)

\* cache.match(req) on the cache named `name`: a non-GET request matches nothing
CacheMatch(name, req) ==
  IF req.method # "GET" \/ store[name][req.url].kind = "none"
  THEN Undefined
  ELSE store[name][req.url].res

\* caches.match(url): the first hit over the caches in creation order
RECURSIVE MatchIn(_, _)
MatchIn(names, req) ==
  IF names = <<>> THEN Undefined
  ELSE IF IsResponse(CacheMatch(Head(names), req)) THEN CacheMatch(Head(names), req)
  ELSE MatchIn(Tail(names), req)

CachesMatch(url) == MatchIn(cacheKeys, GetRequest(url))

SeqToSet(s) == { s[i] : i \in 1..Len(s) }

\* caches.open(name): creates the cache when it does not exist
CachesOpen(keys, name) == IF name \in SeqToSet(keys) THEN keys ELSE Append(keys, name)

\* caches.delete(name)
CachesDelete(keys, name) == SelectSeq(keys, LAMBDA k : k # name)

\* cache.put(req, res): the promise rejects with a TypeError when the request
\* method is not GET, and nothing is stored then
PutAccepted(req) == req.method = "GET"

----------------------------------------------------------------------------
(* Route selection: the fetch handler *)

IsNavigation(req) == req.mode = "navigate" \/ req.destination = "document"

UnderApiBase(req) == StartsWith(req.url, API_BASE)

IsStaticAsset(req) == req.destination \in {"script", "style", "worker"}

\* The origin guard: TRUE when the handler returns without responding
NotHandled(req) == OriginOf(req.url) # SelfOrigin /\ ~UnderApiBase(req)

\* The handler with the return of the navigation rule left out
RespondCallsFallThrough(req) ==
  IF NotHandled(req) THEN <<>>
  ELSE (IF IsNavigation(req) THEN <<"networkFirst">> ELSE <<>>)
       \o (IF UnderApiBase(req) THEN <<"networkFirst">>
           ELSE IF IsStaticAsset(req) THEN <<"staleWhileRevalidate">>
           ELSE <<"cacheFirst">>)

\* The strategies respondWith is called with, in call order, as the handler
\* runs through its rules; every rule ends with a return.
RespondCalls(req) ==
  IF NotHandled(req) THEN <<>>
  ELSE IF IsNavigation(req) THEN <<"networkFirst">>
  ELSE IF UnderApiBase(req) THEN <<"networkFirst">>
  ELSE IF IsStaticAsset(req) THEN <<"staleWhileRevalidate">>
  ELSE IF req.destination = "image" THEN <<"cacheFirst">>
  ELSE <<"cacheFirst">>

----------------------------------------------------------------------------
(* The cache lookups of the strategies: cache.match(req) on the runtime cache *)

CFLookup(req) == CacheMatch(RUNTIME_CACHE, req)

NFLookup(req) == CacheMatch(RUNTIME_CACHE, req)

\* caches.match(req) in place of cache.match(req)
SWRLookupAnyCache(req) == MatchIn(cacheKeys, req)

SWRLookup(req) == CacheMatch(RUNTIME_CACHE, req)

\* staleWhileRevalidate: return cached || fetchPromise. <<>> stands for the
\* pending fetchPromise.
SWRReturn(cached) == IF IsResponse(cached) THEN <<cached>> ELSE <<>>

----------------------------------------------------------------------------
(* The conditions under which each strategy calls cache.put *)

CFShouldPut(req, res) == res.ok /\ req.method = "GET"

\* the put without the ok test
NFShouldPutAnyStatus(req, res) == TRUE

NFShouldPut(req, res) == res.ok

SWRShouldPut(req, res) == res.ok

ShouldPut(strategy, req, res) ==
  CASE strategy = "cacheFirst" -> CFShouldPut(req, res)
    [] strategy = "networkFirst" -> NFShouldPut(req, res)
    [] strategy = "staleWhileRevalidate" -> SWRShouldPut(req, res)

----------------------------------------------------------------------------
(* Lifecycle: install and activate *)

ShellEntries ==
  [u \in Hrefs |->
     IF \E i \in 1..Len(APP_SHELL) : u = Href(SelfOrigin, APP_SHELL[i])
     THEN Entry(GetRequest(u), Response(TRUE, 0))
     ELSE NoEntry]

\* install: caches.open(SHELL_CACHE).then(c => c.addAll(APP_SHELL)); addAll
\* stores all of the manifest or, when one fetch fails, nothing, and the
\* installation then fails. skipWaiting lets the worker activate at once.
Install(allOk) ==
  /\ phase = "parsed"
  /\ cacheKeys' = CachesOpen(cacheKeys, SHELL_CACHE)
  /\ store' = IF allOk THEN [store EXCEPT ![SHELL_CACHE] =
                              [u \in Hrefs |-> IF ShellEntries[u].kind = "entry"
                                               THEN ShellEntries[u] ELSE @[u]]]
              ELSE store
  /\ phase' = IF allOk THEN "installed" ELSE "redundant"
  /\ UNCHANGED <<actKeys, handlers, puts, lastOk, syncVars, pushes, pageVars>>

\* The filter of the activate handler
\* the filter with RUNTIME_CACHE left out of the list
ShouldDeleteAllButShell(k) == k # SHELL_CACHE

ShouldDelete(k) == k \notin {SHELL_CACHE, RUNTIME_CACHE}

\* activate: const keys = await caches.keys()
ActivateKeys ==
  /\ phase = "installed"
  /\ phase' = "activating"
  /\ actKeys' = SeqToSet(cacheKeys)
  /\ UNCHANGED <<cacheKeys, store, handlers, puts, lastOk, syncVars, pushes, pageVars>>

\* one of the caches.delete(k) promises of Promise.all settles
ActivateDelete(k) ==
  /\ phase = "activating"
  /\ k \in actKeys
  /\ ShouldDelete(k)
  /\ k \in SeqToSet(cacheKeys)
  /\ cacheKeys' = CachesDelete(cacheKeys, k)
  /\ store' = [store EXCEPT ![k] = EmptyCache]
  /\ UNCHANGED <<phase, actKeys, handlers, puts, lastOk, syncVars, pushes, pageVars>>

\* Promise.all has settled: await self.clients.claim()
ActivateClaim ==
  /\ phase = "activating"
  /\ \A k \in actKeys : ShouldDelete(k) => k \notin SeqToSet(cacheKeys)
  /\ phase' = "activated"
  /\ actKeys' = {}
  /\ UNCHANGED <<cacheKeys, store, handlers, puts, lastOk, syncVars, pushes, pageVars>>

----------------------------------------------------------------------------
(* The fetch handler and the three strategies *)

HandlerIds == 1..Len(handlers)

\* fetch event: route selection, then the first steps of the chosen strategy
\* up to its first await on the cache or the network. A second respondWith
\* call on the same event throws, so the first call decides the response.
FetchEvent(req) ==
  /\ phase = "activated"
  /\ Len(handlers) < MaxRequests
  /\ LET calls == RespondCalls(req)
         strategy == IF calls = <<>> THEN "none" ELSE Head(calls)
     IN /\ handlers' = Append(handlers,
             [req |-> req, calls |-> calls, strategy |-> strategy,
              pc |-> CASE strategy = "none" -> "passthrough"
                       [] strategy = "networkFirst" -> "fetch"
                       [] OTHER -> "match",
              cached |-> Undefined,
              net |-> IF strategy = "networkFirst" THEN "pending" ELSE "none",
              timer |-> IF strategy = "networkFirst" THEN "armed" ELSE "none",
              out |-> <<>>, via |-> "none", put |-> "none",
              okAtStart |-> lastOk[req.url], okAtEnd |-> Undefined])
        \* const cache = await caches.open(RUNTIME_CACHE)
        /\ cacheKeys' = IF strategy = "none" THEN cacheKeys
                        ELSE CachesOpen(cacheKeys, RUNTIME_CACHE)
  /\ UNCHANGED <<phase, store, actKeys, puts, lastOk, syncVars, pushes, pageVars>>

\* cacheFirst: const match = await cache.match(req); if (match) return match;
\* otherwise swFetch(req) is issued
CacheFirstMatch(h) ==
  /\ handlers[h].strategy = "cacheFirst"
  /\ handlers[h].pc = "match"
  /\ LET match == CFLookup(handlers[h].req)
     IN handlers' = [handlers EXCEPT ![h] =
          IF IsResponse(match)
          THEN [@ EXCEPT !.cached = match, !.out = <<match>>, !.via = "cache",
                         !.pc = "done"]
          ELSE [@ EXCEPT !.pc = "fetch", !.net = "pending", !.timer = "armed"]]
  /\ UNCHANGED <<phase, cacheKeys, store, actKeys, puts, lastOk, syncVars, pushes, pageVars>>

\* staleWhileRevalidate: const cached = await cache.match(req); swFetch(req)
\* is issued whatever cached is; return cached || fetchPromise
StaleMatch(h) ==
  /\ handlers[h].strategy = "staleWhileRevalidate"
  /\ handlers[h].pc = "match"
  /\ LET cached == SWRLookup(handlers[h].req)
     IN handlers' = [handlers EXCEPT ![h] =
          [@ EXCEPT !.cached = cached, !.pc = "fetch", !.net = "pending",
                    !.timer = "armed",
                    !.out = SWRReturn(cached),
                    !.via = IF SWRReturn(cached) # <<>> THEN "cache" ELSE "none"]]
  /\ UNCHANGED <<phase, cacheKeys, store, actKeys, puts, lastOk, syncVars, pushes, pageVars>>

\* swFetch(req) resolves with a response, ok or not, and its finally
\* callback clears the timer. The strategy calls cache.put(req, res.clone())
\* without awaiting it and returns res.
FetchResolve(h, ok) ==
  /\ handlers[h].pc = "fetch"
  /\ LET req == handlers[h].req
         res == Response(ok, h)
         putCalled == ShouldPut(handlers[h].strategy, req, res)
         putGoes == putCalled /\ PutAccepted(req)
     IN /\ handlers' = [handlers EXCEPT ![h] =
             [@ EXCEPT !.net = IF ok THEN "ok" ELSE "notok",
                       !.timer = "cleared",
                       !.pc = "done",
                       !.out = IF @ = <<>> THEN <<res>> ELSE @,
                       !.via = IF handlers[h].out = <<>> THEN "network" ELSE @,
                       !.put = IF putGoes THEN "pending"
                               ELSE IF putCalled THEN "rejected" ELSE "none"]]
        /\ puts' = IF putGoes THEN puts \cup {[h |-> h, req |-> req, res |-> res]}
                   ELSE puts
        /\ lastOk' = IF handlers[h].strategy = "networkFirst" /\ ok /\ req.method = "GET"
                     THEN [lastOk EXCEPT ![req.url] = res]
                     ELSE lastOk
  /\ UNCHANGED <<phase, cacheKeys, store, actKeys, syncVars, pushes, pageVars>>

\* swFetch(req) has rejected, hr the record of the handler: networkFirst
\* and cacheFirst enter their catch block; in staleWhileRevalidate
\* fetchPromise resolves with cached || caches.match('/offline.html').
Rejected(hr) ==
  CASE hr.strategy = "networkFirst" -> [hr EXCEPT !.net = "failed", !.pc = "nfmatch"]
    [] hr.strategy = "cacheFirst" -> [hr EXCEPT !.net = "failed", !.pc = "fallback"]
    [] OTHER ->
         IF IsResponse(hr.cached)
         THEN [hr EXCEPT !.net = "failed", !.pc = "done",
                         !.out = IF @ = <<>> THEN <<hr.cached>> ELSE @,
                         !.via = "cache"]
         ELSE [hr EXCEPT !.net = "failed", !.pc = "fallback"]

\* the fetch of swFetch(req) rejects with a network error before the timer
\* fires; the finally callback clears the timer
FetchReject(h) ==
  /\ handlers[h].pc = "fetch"
  /\ handlers' = [handlers EXCEPT ![h] = Rejected([@ EXCEPT !.timer = "cleared"])]
  /\ UNCHANGED <<phase, cacheKeys, store, actKeys, puts, lastOk, syncVars, pushes, pageVars>>

\* the timer of swFetch fires, timeout (8000) ms after the fetch was issued
\* and before it settled: controller.abort() makes the fetch reject
TimerFires(h) ==
  /\ handlers[h].pc = "fetch"
  /\ handlers[h].timer = "armed"
  /\ handlers' = [handlers EXCEPT ![h] = Rejected([@ EXCEPT !.timer = "fired"])]
  /\ UNCHANGED <<phase, cacheKeys, store, actKeys, puts, lastOk, syncVars, pushes, pageVars>>

\* networkFirst, catch: const cached = await cache.match(req)
NetworkFirstMatch(h) ==
  /\ handlers[h].pc = "nfmatch"
  /\ LET cached == NFLookup(handlers[h].req)
     IN handlers' = [handlers EXCEPT ![h] =
          IF IsResponse(cached)
          THEN [@ EXCEPT !.cached = cached, !.out = <<cached>>, !.via = "cache",
                         !.okAtEnd = lastOk[handlers[h].req.url], !.pc = "done"]
          ELSE [@ EXCEPT !.pc = "fallback"]]
  /\ UNCHANGED <<phase, cacheKeys, store, actKeys, puts, lastOk, syncVars, pushes, pageVars>>

\* caches.match('/offline.html') settles and is what the strategy returns
Fallback(h) ==
  /\ handlers[h].pc = "fallback"
  /\ handlers' = [handlers EXCEPT ![h] =
       [@ EXCEPT !.out = <<CachesMatch(OfflineUrl)>>, !.via = "fallback",
                 !.okAtEnd = lastOk[handlers[h].req.url], !.pc = "done"]]
  /\ UNCHANGED <<phase, cacheKeys, store, actKeys, puts, lastOk, syncVars, pushes, pageVars>>

\* a cache.put promise settles: the entry for the request is replaced
\* the write going to the shell generation
PutSettleIntoShell(p) ==
  /\ p \in puts
  /\ puts' = puts \ {p}
  /\ store' = [store EXCEPT ![SHELL_CACHE][p.req.url] = Entry(p.req, p.res)]
  /\ handlers' = [handlers EXCEPT ![p.h].put = "stored"]
  /\ UNCHANGED <<phase, cacheKeys, actKeys, lastOk, syncVars, pushes, pageVars>>

PutSettle(p) ==
  /\ p \in puts
  /\ puts' = puts \ {p}
  /\ store' = [store EXCEPT ![RUNTIME_CACHE][p.req.url] = Entry(p.req, p.res)]
  /\ handlers' = [handlers EXCEPT ![p.h].put = "stored"]
  /\ UNCHANGED <<phase, cacheKeys, actKeys, lastOk, syncVars, pushes, pageVars>>

----------------------------------------------------------------------------
(* Initial states and the specification of lifecycle and fetch handling *)

\* Cache generations a previous run may have left behind: those of the
\* previous version, and a runtime generation of this version (the worker
\* script was replaced without a change of VERSION).
OldShellContents ==
  [u \in Hrefs |-> IF u \in {Href(SelfOrigin, "/index.html"), OfflineUrl}
                   THEN Entry(GetRequest(u), Response(TRUE, 0)) ELSE NoEntry]

OldRuntimeContents ==
  [u \in Hrefs |-> IF u = Href(SelfOrigin, "/main.js")
                   THEN Entry(GetRequest(u), Response(TRUE, 0)) ELSE NoEntry]

WarmRuntimeContents ==
  [u \in Hrefs |-> IF u \in {Href(SelfOrigin, "/main.js"), Href(SelfOrigin, "/index.html"),
                             Href(SelfOrigin, "/logo.png")}
                   THEN Entry(GetRequest(u), Response(TRUE, 0)) ELSE NoEntry]

LeftBehind == <<OLD_SHELL_CACHE, OLD_RUNTIME_CACHE, RUNTIME_CACHE>>

ContentsOf(name) ==
  CASE name = OLD_SHELL_CACHE -> OldShellContents
    [] name = OLD_RUNTIME_CACHE -> OldRuntimeContents
    [] name = RUNTIME_CACHE -> WarmRuntimeContents
    [] OTHER -> EmptyCache

SyncIdle ==
  /\ queue = <<>>
  /\ drains = <<>>
  /\ sent = <<>>

\* No push event has been dispatched
PushIdle == pushes = <<>>

\* No page of the application is open
PageIdle ==
  /\ now = 0
  /\ products = <<>>
  /\ savedSearches = <<>>
  /\ users = <<>>
  /\ currentUser = <<>>
  /\ permission = "default"
  /\ ops = <<>>
  /\ shown = <<>>
  /\ found = <<>>

Init ==
  /\ phase = "parsed"
  /\ \E present \in SUBSET SeqToSet(LeftBehind) :
       /\ cacheKeys = SelectSeq(LeftBehind, LAMBDA k : k \in present)
       /\ store = [n \in CacheNames |-> IF n \in present THEN ContentsOf(n) ELSE EmptyCache]
  /\ actKeys = {}
  /\ handlers = <<>>
  /\ puts = {}
  /\ lastOk = [u \in Hrefs |-> Undefined]
  /\ SyncIdle
  /\ PushIdle
  /\ PageIdle

Next ==
  \/ \E allOk \in BOOLEAN : Install(allOk)
  \/ ActivateKeys
  \/ \E k \in CacheNames : ActivateDelete(k)
  \/ ActivateClaim
  \/ \E req \in Requests : FetchEvent(req)
  \/ \E h \in HandlerIds : CacheFirstMatch(h)
  \/ \E h \in HandlerIds : StaleMatch(h)
  \/ \E h \in HandlerIds, ok \in BOOLEAN : FetchResolve(h, ok)
  \/ \E h \in HandlerIds : FetchReject(h)
  \/ \E h \in HandlerIds : TimerFires(h)
  \/ \E h \in HandlerIds : NetworkFirstMatch(h)
  \/ \E h \in HandlerIds : Fallback(h)
  \/ \E p \in puts : PutSettle(p)

Spec == Init /\ [][Next]_vars

----------------------------------------------------------------------------
(* Background sync: the sync handler and syncPending *)

DrainIds == 1..Len(drains)

Task(id, method) == [id |-> id, method |-> method]

Running(d) == drains[d].pc \in {"open", "getAll", "replay", "delete"}

\* dbDelete(db, 'queue', key): removes the record with that key, if any
DbDelete(q, key) == SelectSeq(q, LAMBDA t : t.id # key)

\* sync event: syncPending() is started when the tag is 'sync-tasks'
SyncEvent(tag) ==
  /\ phase = "activated"
  /\ Len(drains) < MaxDrains
  /\ drains' = Append(drains,
       [tag |-> tag, pc |-> IF tag = "sync-tasks" THEN "open" ELSE "ignored",
        all |-> <<>>, i |-> 0, replies |-> <<>>, deletes |-> <<>>, left |-> <<>>])
  /\ sent' = Append(sent, 0)
  /\ UNCHANGED <<routerVars, pushes, pageVars, queue>>

\* const db = await openDB('tasks-db', 1, ...): onsuccess or onerror
OpenDB(d, ok) ==
  /\ drains[d].pc = "open"
  /\ drains' = [drains EXCEPT ![d].pc = IF ok THEN "getAll" ELSE "rejected"]
  /\ UNCHANGED <<routerVars, pushes, pageVars, queue, sent>>

\* the message sent from inside the try block: a pass whose last attempt
\* failed ends without it
NextItemQuietAfterFailure(dr, q) ==
  IF dr.i < Len(dr.all)
  THEN [dr EXCEPT !.i = dr.i + 1, !.pc = "replay"]
  ELSE IF dr.replies # <<>> /\ ~dr.replies[Len(dr.replies)]
       THEN [dr EXCEPT !.pc = "done", !.left = q]
       ELSE [dr EXCEPT !.pc = "notify", !.left = q]

\* the for loop moves to its next item; after the last one
\* sendClientMessage({ type: 'SYNC_DONE' }) is called and syncPending returns
NextItem(dr, q) ==
  IF dr.i < Len(dr.all)
  THEN [dr EXCEPT !.i = dr.i + 1, !.pc = "replay"]
  ELSE [dr EXCEPT !.pc = "notify", !.left = q]

\* const all = await dbGetAll(db, 'queue'): onsuccess or onerror
GetAll(d, ok) ==
  /\ drains[d].pc = "getAll"
  /\ drains' = [drains EXCEPT ![d] =
       IF ok THEN NextItem([@ EXCEPT !.all = queue], queue)
       ELSE [@ EXCEPT !.pc = "rejected"]]
  /\ UNCHANGED <<routerVars, pushes, pageVars, queue, sent>>

\* The condition under which the replayed item is deleted
\* the delete without the ok test
ShouldDeleteItemAlways(res) == TRUE

ShouldDeleteItem(res) == res = "ok"

\* the fetch of `${API_BASE}/tasks` for the current item settles: a response,
\* ok or not, or a rejection, which the catch swallows. replies records
\* whether the replay returned an ok response.
ReplaySettle(d, res) ==
  /\ drains[d].pc = "replay"
  /\ drains' = [drains EXCEPT ![d] =
       IF res # "rejected" /\ ShouldDeleteItem(res)
       THEN [@ EXCEPT !.replies = Append(@, res = "ok"), !.pc = "delete"]
       ELSE NextItem([@ EXCEPT !.replies = Append(@, res = "ok"),
                               !.deletes = Append(@, "none")], queue)]
  /\ UNCHANGED <<routerVars, pushes, pageVars, queue, sent>>

\* await dbDelete(db, 'queue', item.id) settles: onsuccess, or onerror, which
\* the catch swallows
DeleteSettle(d, ok) ==
  /\ drains[d].pc = "delete"
  /\ LET dr == drains[d]
         q == IF ok THEN DbDelete(queue, dr.all[dr.i].id) ELSE queue
     IN /\ queue' = q
        /\ drains' = [drains EXCEPT ![d] =
             NextItem([@ EXCEPT !.deletes = Append(@, IF ok THEN "done" ELSE "failed")], q)]
  /\ UNCHANGED <<routerVars, pushes, pageVars, sent>>

\* sendClientMessage: clients.matchAll(...) resolves and the message is
\* posted to the window clients
Notify(d) ==
  /\ drains[d].pc = "notify"
  /\ drains' = [drains EXCEPT ![d].pc = "done"]
  /\ sent' = [sent EXCEPT ![d] = @ + 1]
  /\ UNCHANGED <<routerVars, pushes, pageVars, queue>>

\* The worker is active, with the caches of this version, and the queue
\* holds the tasks the pages have added, keyed by auto-increment
InitSync ==
  /\ phase = "activated"
  /\ cacheKeys = <<SHELL_CACHE>>
  /\ store = [n \in CacheNames |-> IF n = SHELL_CACHE THEN ShellEntries ELSE EmptyCache]
  /\ actKeys = {}
  /\ handlers = <<>>
  /\ puts = {}
  /\ lastOk = [u \in Hrefs |-> Undefined]
  /\ \E n \in 0..MaxQueue :
       queue = [k \in 1..n |-> Task(k, IF k % 2 = 0 THEN "PUT" ELSE "")]
  /\ drains = <<>>
  /\ sent = <<>>
  /\ PushIdle
  /\ PageIdle

NextSync ==
  \/ \E tag \in {"sync-tasks", "periodic"} : SyncEvent(tag)
  \/ \E d \in DrainIds, ok \in BOOLEAN : OpenDB(d, ok)
  \/ \E d \in DrainIds, ok \in BOOLEAN : GetAll(d, ok)
  \/ \E d \in DrainIds, res \in {"ok", "notok", "rejected"} : ReplaySettle(d, res)
  \/ \E d \in DrainIds, ok \in BOOLEAN : DeleteSettle(d, ok)
  \/ \E d \in DrainIds : Notify(d)

SpecSync == InitSync /\ [][NextSync]_vars

\* Sync events that arrive only when no pass is in flight: the behaviours
\* without concurrent passes
SoloSyncEvent(tag) ==
  /\ \A d \in DrainIds : ~Running(d)
  /\ SyncEvent(tag)

NextSolo ==
  \/ \E tag \in {"sync-tasks", "periodic"} : SoloSyncEvent(tag)
  \/ \E d \in DrainIds, ok \in BOOLEAN : OpenDB(d, ok)
  \/ \E d \in DrainIds, ok \in BOOLEAN : GetAll(d, ok)
  \/ \E d \in DrainIds, res \in {"ok", "notok", "rejected"} : ReplaySettle(d, res)
  \/ \E d \in DrainIds, ok \in BOOLEAN : DeleteSettle(d, ok)
  \/ \E d \in DrainIds : Notify(d)

SpecSolo == InitSync /\ [][NextSolo]_vars

\* What the platform guarantees to a pass: every IndexedDB request fires
\* onsuccess or onerror, and clients.matchAll() resolves. The replay is a
\* plain fetch(...) with no signal and no timer (swFetch is not used), so
\* nothing makes it settle when the endpoint never responds.
DrainFairness ==
  /\ WF_vars(\E d \in DrainIds, ok \in BOOLEAN : OpenDB(d, ok))
  /\ WF_vars(\E d \in DrainIds, ok \in BOOLEAN : GetAll(d, ok))
  /\ WF_vars(\E d \in DrainIds, ok \in BOOLEAN : DeleteSettle(d, ok))
  /\ WF_vars(\E d \in DrainIds : Notify(d))

SpecSoloFair == SpecSolo /\ DrainFairness

----------------------------------------------------------------------------
(* Push notifications: the push handler *)

\* A parsed JSON value: null, a number, or an object, whose fields are a
\* function from its keys to strings
JNull == [type |-> "null"]
JNumber == [type |-> "number"]
JObject(fields) == [type |-> "object", fields |-> fields]

\* The texts a push message may carry
PushTexts ==
  { "", "Marche ouvert", "null", "42", "{}",
    "{\"title\":\"Marche\"}", "{\"title\":\"\"}", "{\"body\":\"Tomates\"}",
    "{\"url\":\"/produits\"}",
    "{\"title\":\"Marche\",\"body\":\"Tomates\",\"url\":\"/produits\"}" }

\* event.data is null, or holds a text
PushData == {[kind |-> "absent"]} \cup { [kind |-> "text", text |-> t] : t \in PushTexts }

\* event.data.json() throws a SyntaxError on a text that is not JSON
JsonThrows(text) == text \in {"", "Marche ouvert"}

\* event.data.json(): JSON.parse of the text
Json(text) ==
  CASE text = "null" -> JNull
    [] text = "42" -> JNumber
    [] text = "{}" -> JObject(<<>>)
    [] text = "{\"title\":\"Marche\"}" -> JObject([title |-> "Marche"])
    [] text = "{\"title\":\"\"}" -> JObject([title |-> ""])
    [] text = "{\"body\":\"Tomates\"}" -> JObject([body |-> "Tomates"])
    [] text = "{\"url\":\"/produits\"}" -> JObject([url |-> "/produits"])
    [] text = "{\"title\":\"Marche\",\"body\":\"Tomates\",\"url\":\"/produits\"}"
         -> JObject([title |-> "Marche", body |-> "Tomates", url |-> "/produits"])

\* let payload = {};
\* try { payload = event.data ? event.data.json() : {}; } catch { payload = {}; }
Payload(data) ==
  IF data.kind = "absent" THEN JObject(<<>>)
  ELSE IF JsonThrows(data.text) THEN JObject(<<>>)
  ELSE Json(data.text)

\* payload[key] on a payload that is not null: <<value>>, or <<>> for
\* undefined
Prop(payload, key) ==
  IF payload.type = "object" /\ key \in DOMAIN payload.fields
  THEN <<payload.fields[key]>>
  ELSE <<>>

\* v || d on a string or undefined: d when v is undefined or ''
OrElse(v, d) == IF v = <<>> \/ v = <<"">> THEN d ELSE v[1]

DefaultTitle == "Nouvelle notification"
DefaultBody == "Ouvrir l'application"

\* the options object built by the handler
Options(payload) ==
  [body |-> OrElse(Prop(payload, "body"), DefaultBody),
   icon |-> "/icons/icon-192.png",
   badge |-> "/icons/icon-192.png",
   data |-> [url |-> OrElse(Prop(payload, "url"), "/")],
   actions |-> <<"open", "done">>]

\* The showNotification calls of the handler: none when payload is null,
\* since payload.title then throws a TypeError outside the try block and the
\* handler ends there; otherwise the one call at its end
ShowNotificationCalls(payload) ==
  IF payload.type = "null" THEN <<>>
  ELSE <<[title |-> OrElse(Prop(payload, "title"), DefaultTitle),
          options |-> Options(payload)]>>

\* push event: the whole handler
Push(data) ==
  /\ phase = "activated"
  /\ Len(pushes) < MaxPushes
  /\ pushes' = Append(pushes, [data |-> data, payload |-> Payload(data),
                               shown |-> ShowNotificationCalls(Payload(data))])
  /\ UNCHANGED <<routerVars, syncVars, pageVars>>

NextPush == \E data \in PushData : Push(data)

SpecPush == InitSync /\ [][NextPush]_vars

----------------------------------------------------------------------------
(* The page script (src/main.js): values *)

\* A JavaScript number is <<v>>, v an integer of the model, or NaN
Num(v) == <<v>>
NaN == <<>>

\* x > 0 on numbers
Positive(x) == x # NaN /\ x[1] > 0

\* Coordinates: Paris (48.8566, 2.3522), Versailles (48.8049, 2.1204) and
\* Lyon (45.7640, 4.8357); NoLocation is a null location
Places == {"Paris", "Versailles", "Lyon"}
NoLocation == "null"

\* calculateDistance(pos1, pos2), tabulated over Places: the value the
\* haversine formula returns, in metres, rounded up, so that for an integer
\* r, distance <= r kilometres exactly when the tabulated value <= 1000 * r
CalculateDistance(pos1, pos2) ==
  CASE pos1 = pos2 -> Num(0)
    [] {pos1, pos2} = {"Paris", "Versailles"} -> Num(17915)
    [] {pos1, pos2} = {"Paris", "Lyon"} -> Num(391499)
    [] {pos1, pos2} = {"Versailles", "Lyon"} -> Num(395265)

\* distance <= radius, the distance in metres and the radius in kilometres
WithinKm(distance, radius) ==
  distance # NaN /\ radius # NaN /\ distance[1] <= 1000 * radius[1]

\* Two of the categories of ProductManager
Categories == {"Fruits", "Legumes"}

User(id, location) == [id |-> id, location |-> location]

Search(id, userId, category, radius) ==
  [id |-> id, userId |-> userId, category |-> category, radius |-> radius]

----------------------------------------------------------------------------
(* NotificationManager.notifyBuyers *)

\* the category filter without the wildcards
CategoryMatchesExact(search, product) == search.category = product.category

\* !search.category || search.category === 'all' || search.category === product.category
CategoryMatches(search, product) ==
  search.category = "" \/ search.category = "all" \/ search.category = product.category

\* users.find(u => u.id === id): the first such user, in a one-element
\* sequence, or the empty sequence for undefined
RECURSIVE UsersFind(_, _)
UsersFind(us, id) ==
  IF us = <<>> THEN <<>>
  ELSE IF Head(us).id = id THEN <<Head(us)>>
  ELSE UsersFind(Tail(us), id)

\* The body of the for loop for one search of matchingSearches: the
\* sendNotification calls it makes. pos is the position of the search in the
\* stored collection.
LoopBody(product, search, pos, us) ==
  IF product.location # NoLocation /\ search.userId # 0
  THEN LET user == UsersFind(us, search.userId)
       IN IF user # <<>> /\ user[1].location # NoLocation
          THEN LET distance == CalculateDistance(product.location, user[1].location)
               IN IF WithinKm(distance, search.radius)
                  THEN <<[search |-> pos, productId |-> product.id, distance |-> distance]>>
                  ELSE <<>>
          ELSE <<>>
  ELSE <<>>

\* the searches of the collection from position pos on that pass the
\* category filter, as their positions
RECURSIVE MatchingSearches(_, _, _)
MatchingSearches(searches, product, pos) ==
  IF pos > Len(searches) THEN <<>>
  ELSE (IF CategoryMatches(searches[pos], product) THEN <<pos>> ELSE <<>>)
       \o MatchingSearches(searches, product, pos + 1)

\* the sendNotification calls of the loop over matchingSearches, in order
RECURSIVE NotifyLoop(_, _, _, _)
NotifyLoop(product, searches, matching, us) ==
  IF matching = <<>> THEN <<>>
  ELSE LoopBody(product, searches[Head(matching)], Head(matching), us)
       \o NotifyLoop(product, searches, Tail(matching), us)

----------------------------------------------------------------------------
(* The page script: calls of the handlers and managers *)

\* Date.now() when the page starts; the records stored by earlier sessions
\* carry smaller ids
Epoch == 10

OpIds == 1..Len(ops)

\* The record of one call: its kind, where it stands, its argument, and its
\* local variables (list: the collection as read and modified; product: the
\* product built by saveProduct; searches, us: what notifyBuyers read;
\* sends: the sendNotification calls it made), and how far its call of
\* notifyBuyers came: none, running, abandoned (in the catch block) or done
Op(kind, pc, data) ==
  [kind |-> kind, pc |-> pc, data |-> data, list |-> <<>>, product |-> <<>>,
   searches |-> <<>>, us |-> <<>>, sends |-> <<>>, dispatch |-> "none"]

\* the clock of the page advances
Tick ==
  /\ now < Epoch + MaxClock
  /\ now' = now + 1
  /\ UNCHANGED <<routerVars, pushes, syncVars, products, savedSearches, users, currentUser,
                 permission, ops, shown, found>>

\* handleSellerSubmit: without a current user it returns at once; otherwise
\* it builds productData and calls saveProduct, whose first step is the
\* getItem of 'products'
HandleSellerSubmit(category) ==
  /\ Len(ops) < MaxOps
  /\ ops' = Append(ops,
       IF currentUser = <<>>
       THEN Op("handleSellerSubmit", "noUser", <<>>)
       ELSE Op("handleSellerSubmit", "saveRead",
               [sellerId |-> currentUser[1].id, category |-> category,
                location |-> currentUser[1].location]))
  /\ UNCHANGED <<routerVars, pushes, syncVars, now, products, savedSearches, users, currentUser,
                 permission, shown, found>>

\* a call of ProductManager.saveProduct(productData)
SaveProduct(productData) ==
  /\ Len(ops) < MaxOps
  /\ ops' = Append(ops, Op("saveProduct", "saveRead", productData))
  /\ UNCHANGED <<routerVars, pushes, syncVars, now, products, savedSearches, users, currentUser,
                 permission, shown, found>>

\* the id of a new record
NewId == now

\* { id: Date.now(), ...productData, createdAt: Date.now(), status: 'disponible' }
NewProduct(productData) ==
  [id |-> NewId, sellerId |-> productData.sellerId, category |-> productData.category,
   location |-> productData.location, createdAt |-> now, status |-> "disponible",
   updatedAt |-> <<>>]

\* saveProduct and saveBuyerSearch rethrow what they catch: handleSellerSubmit
\* and handleBuyerSubmit catch it and show the error message
Thrown(op) == IF op.kind \in {"handleSellerSubmit", "handleBuyerSubmit"} THEN "failed" ELSE "threw"

\* saveProduct: getItem('products') settles. On success the product is
\* built, put at the head of the list that was read, and setItem is called.
SaveRead(t, ok) ==
  /\ ops[t].pc = "saveRead"
  /\ ops' = [ops EXCEPT ![t] =
       IF ok
       THEN [@ EXCEPT !.product = <<NewProduct(ops[t].data)>>,
                      !.list = <<NewProduct(ops[t].data)>> \o products,
                      !.pc = "saveWrite"]
       ELSE [@ EXCEPT !.pc = Thrown(ops[t])]]
  /\ UNCHANGED <<routerVars, pushes, syncVars, now, products, savedSearches, users, currentUser,
                 permission, shown, found>>

\* a setItem that keeps the stored records whose id the written list lacks
SetItemMerged(list, stored) ==
  list \o SelectSeq(stored, LAMBDA r : \A k \in 1..Len(list) : list[k].id # r.id)

\* localforage.setItem(key, list) succeeds: the stored item becomes list
SetItem(list, stored) == list

\* saveProduct: setItem('products', products) settles. On success the
\* product is returned; handleSellerSubmit goes on with notifyBuyers, whose
\* first step is the getItem of 'savedSearches'.
SaveWrite(t, ok) ==
  /\ ops[t].pc = "saveWrite"
  /\ products' = IF ok THEN SetItem(ops[t].list, products) ELSE products
  /\ ops' = [ops EXCEPT ![t] =
       IF ~ok THEN [@ EXCEPT !.pc = Thrown(ops[t])]
       ELSE IF ops[t].kind = "handleSellerSubmit"
            THEN [@ EXCEPT !.pc = "readSearches", !.dispatch = "running"]
       ELSE [@ EXCEPT !.pc = "returned"]]
  /\ UNCHANGED <<routerVars, pushes, syncVars, now, savedSearches, users, currentUser,
                 permission, shown, found>>

\* notifyBuyers has returned: handleSellerSubmit shows 'Produit ajoute et
\* notifications envoyees !'
Notified(op) == IF op.kind = "handleSellerSubmit" THEN "succeeded" ELSE "returned"

\* the catch block of notifyBuyers rethrowing what it caught
NotifyCaughtRethrown(op) == Thrown(op)

\* catch (error) { console.error(...) }: notifyBuyers returns
NotifyCaught(op) == Notified(op)

\* notifyBuyers: getItem('savedSearches') settles; a rejection is caught and
\* logged, and notifyBuyers returns
ReadSearches(t, ok) ==
  /\ ops[t].pc = "readSearches"
  /\ ops' = [ops EXCEPT ![t] =
       IF ok THEN [@ EXCEPT !.searches = savedSearches, !.pc = "readUsers"]
       ELSE [@ EXCEPT !.pc = NotifyCaught(ops[t]), !.dispatch = "abandoned"]]
  /\ UNCHANGED <<routerVars, pushes, syncVars, now, products, savedSearches, users, currentUser,
                 permission, shown, found>>

\* sendNotification: a Notification is constructed when the permission is granted
SendNotification(sends) == IF permission = "granted" THEN sends ELSE <<>>

\* notifyBuyers: getItem('users') settles. On success the searches are
\* filtered and the loop runs; a rejection is caught and logged. Then
\* notifyBuyers returns.
ReadUsers(t, ok) ==
  /\ ops[t].pc = "readUsers"
  /\ LET op == ops[t]
         sends == NotifyLoop(op.product[1], op.searches,
                             MatchingSearches(op.searches, op.product[1], 1), users)
     IN IF ok
        THEN /\ ops' = [ops EXCEPT ![t] = [@ EXCEPT !.us = users, !.sends = sends,
                                                    !.pc = Notified(ops[t]),
                                                    !.dispatch = "done"]]
             /\ shown' = shown \o SendNotification(sends)
        ELSE /\ ops' = [ops EXCEPT ![t] = [@ EXCEPT !.pc = NotifyCaught(ops[t]),
                                                    !.dispatch = "abandoned"]]
             /\ shown' = shown
  /\ UNCHANGED <<routerVars, pushes, syncVars, now, products, savedSearches, users, currentUser,
                 permission, found>>

\* a call of ProductManager.updateProductStatus(productId, status), whose
\* first step is the getItem of 'products'
UpdateProductStatus(productId, status) ==
  /\ Len(ops) < MaxOps
  /\ ops' = Append(ops, Op("updateProductStatus", "updRead",
                           [productId |-> productId, status |-> status]))
  /\ UNCHANGED <<routerVars, pushes, syncVars, now, products, savedSearches, users, currentUser,
                 permission, shown, found>>

\* products.map(p => p.id === productId ? { ...p, status, updatedAt: Date.now() } : p)
MapStatus(list, productId, status) ==
  [k \in 1..Len(list) |->
     IF list[k].id = productId
     THEN [list[k] EXCEPT !.status = status, !.updatedAt = <<now>>]
     ELSE list[k]]

\* getProducts(): the stored list, or [] when getItem rejects (the catch
\* block logs the error and returns [])
GetProducts(ok) == IF ok THEN products ELSE <<>>

\* updateProductStatus: await this.getProducts() settles, the list it
\* returned is mapped and setItem is called
UpdRead(t, ok) ==
  /\ ops[t].pc = "updRead"
  /\ ops' = [ops EXCEPT ![t] =
       [@ EXCEPT !.list = MapStatus(GetProducts(ok), ops[t].data.productId,
                                    ops[t].data.status),
                 !.pc = "updWrite"]]
  /\ UNCHANGED <<routerVars, pushes, syncVars, now, products, savedSearches, users, currentUser,
                 permission, shown, found>>

\* updateProductStatus: setItem('products', products) settles, and true is
\* returned; a rejection is caught and false is returned
UpdWrite(t, ok) ==
  /\ ops[t].pc = "updWrite"
  /\ products' = IF ok THEN SetItem(ops[t].list, products) ELSE products
  /\ ops' = [ops EXCEPT ![t].pc = IF ok THEN "true" ELSE "false"]
  /\ UNCHANGED <<routerVars, pushes, syncVars, now, savedSearches, users, currentUser,
                 permission, shown, found>>

----------------------------------------------------------------------------
(* Writers of the products collection *)

\* the users stored by earlier sessions: buyers in Versailles and Lyon, a
\* user without a location, a seller in Paris
StoredUsers ==
  <<User(1, "Versailles"), User(2, "Lyon"), User(3, NoLocation), User(4, "Paris")>>

\* a product stored by an earlier session
StoredProduct ==
  [id |-> 5, sellerId |-> 4, category |-> "Legumes", location |-> "Paris",
   createdAt |-> 5, status |-> "disponible", updatedAt |-> <<>>]

\* what the seller form hands to saveProduct
ProductData ==
  {[sellerId |-> 4, category |-> c, location |-> "Paris"] : c \in Categories}

\* the status values of the two buttons of a product card
ButtonStatus == {"vendu", "indisponible"}

InitWriters ==
  /\ phase = "activated"
  /\ cacheKeys = <<SHELL_CACHE>>
  /\ store = [n \in CacheNames |-> IF n = SHELL_CACHE THEN ShellEntries ELSE EmptyCache]
  /\ actKeys = {}
  /\ handlers = <<>>
  /\ puts = {}
  /\ lastOk = [u \in Hrefs |-> Undefined]
  /\ SyncIdle
  /\ PushIdle
  /\ now = Epoch
  /\ products \in {<<>>, <<StoredProduct>>}
  /\ savedSearches = <<>>
  /\ users = StoredUsers
  /\ currentUser = <<User(4, "Paris")>>
  /\ permission = "default"
  /\ ops = <<>>
  /\ shown = <<>>
  /\ found = <<>>

NextWriters ==
  \/ Tick
  \/ \E productData \in ProductData : SaveProduct(productData)
  \/ \E k \in 1..Len(products), status \in ButtonStatus :
       UpdateProductStatus(products[k].id, status)
  \/ \E t \in OpIds, ok \in BOOLEAN : SaveRead(t, ok)
  \/ \E t \in OpIds, ok \in BOOLEAN : SaveWrite(t, ok)
  \/ \E t \in OpIds, ok \in BOOLEAN : UpdRead(t, ok)
  \/ \E t \in OpIds, ok \in BOOLEAN : UpdWrite(t, ok)

SpecWriters == InitWriters /\ [][NextWriters]_vars

\* Calls made one after the other: a call starts only when every earlier
\* call has completed
Completed(t) == ops[t].pc \in {"returned", "threw", "true", "false"}

\* an id that no stored product carries
MissingId == 99

SerialSaveProduct(productData) ==
  /\ \A t \in OpIds : Completed(t)
  /\ SaveProduct(productData)

SerialUpdateProductStatus(productId, status) ==
  /\ \A t \in OpIds : Completed(t)
  /\ UpdateProductStatus(productId, status)

NextSerial ==
  \/ Tick
  \/ \E productData \in ProductData : SerialSaveProduct(productData)
  \/ \E id \in {products[k].id : k \in 1..Len(products)} \cup {MissingId},
        status \in ButtonStatus :
       SerialUpdateProductStatus(id, status)
  \/ \E t \in OpIds, ok \in BOOLEAN : SaveRead(t, ok)
  \/ \E t \in OpIds, ok \in BOOLEAN : SaveWrite(t, ok)
  \/ \E t \in OpIds, ok \in BOOLEAN : UpdRead(t, ok)
  \/ \E t \in OpIds, ok \in BOOLEAN : UpdWrite(t, ok)

SpecSerial == InitWriters /\ [][NextSerial]_vars

----------------------------------------------------------------------------
(* The seller form: one submission over stored searches and users *)

\* saved searches of earlier sessions; user 9 is not in the users collection
SearchPool ==
  { Search(1, 1, "Fruits", Num(50)),
    Search(2, 1, "Legumes", Num(50)),
    Search(3, 1, "all", Num(10)),
    Search(4, 2, "", Num(500)),
    Search(5, 3, "Fruits", Num(500)),
    Search(6, 9, "all", Num(500)),
    Search(7, 2, "Fruits", NaN),
    Search(8, 1, "Fruits", Num(0)) }

\* the sequences of at most n distinct elements of S
SeqsOf(S, n) ==
  UNION { { f \in [1..k -> S] : \A i, j \in 1..k : f[i] = f[j] => i = j } : k \in 0..n }

InitSeller ==
  /\ phase = "activated"
  /\ cacheKeys = <<SHELL_CACHE>>
  /\ store = [n \in CacheNames |-> IF n = SHELL_CACHE THEN ShellEntries ELSE EmptyCache]
  /\ actKeys = {}
  /\ handlers = <<>>
  /\ puts = {}
  /\ lastOk = [u \in Hrefs |-> Undefined]
  /\ SyncIdle
  /\ PushIdle
  /\ now = Epoch
  /\ products = <<>>
  /\ savedSearches \in SeqsOf(SearchPool, MaxSearches)
  /\ users \in {StoredUsers, Tail(StoredUsers)}
  /\ currentUser \in {<<>>, <<User(4, "Paris")>>, <<User(1, "Versailles")>>,
                      <<User(3, NoLocation)>>}
  /\ permission \in {"granted", "default"}
  /\ ops = <<>>
  /\ shown = <<>>
  /\ found = <<>>

\* the seller form is submitted once
SubmitOnce(category) ==
  /\ ops = <<>>
  /\ HandleSellerSubmit(category)

NextSeller ==
  \/ Tick
  \/ \E category \in Categories : SubmitOnce(category)
  \/ \E t \in OpIds, ok \in BOOLEAN : SaveRead(t, ok)
  \/ \E t \in OpIds, ok \in BOOLEAN : SaveWrite(t, ok)
  \/ \E t \in OpIds, ok \in BOOLEAN : ReadSearches(t, ok)
  \/ \E t \in OpIds, ok \in BOOLEAN : ReadUsers(t, ok)

SpecSeller == InitSeller /\ [][NextSeller]_vars

----------------------------------------------------------------------------
(* LocationManager.findUsersInRadius *)

\* the filter with distance < radiusKm
FindUsersInRadiusStrict(center, radiusKm, us) ==
  SelectSeq(us, LAMBDA user :
    /\ user.location # NoLocation
    /\ radiusKm # NaN
    /\ CalculateDistance(center, user.location)[1] < 1000 * radiusKm[1])

\* users.filter(user => ...): center stands for (centerLat, centerLon)
FindUsersInRadius(center, radiusKm, us) ==
  SelectSeq(us, LAMBDA user :
    IF user.location = NoLocation THEN FALSE
    ELSE WithinKm(CalculateDistance(center, user.location), radiusKm))

\* the users a call may be given
UserPool ==
  {User(1, "Versailles"), User(2, "Lyon"), User(3, NoLocation), User(4, "Paris"),
   User(5, "Paris")}

\* the radii a call may be given
Radii == {Num(0), Num(20), Num(400), Num(0 - 1), NaN}

\* a call of findUsersInRadius(centerLat, centerLon, radiusKm, users) returns
FindUsers ==
  /\ ~found.called
  /\ found' = [found EXCEPT !.called = TRUE,
                            !.out = FindUsersInRadius(found.center, found.radiusKm, found.us)]
  /\ UNCHANGED <<routerVars, pushes, syncVars, now, products, savedSearches, users, currentUser,
                 permission, ops, shown>>

InitRadius ==
  /\ phase = "activated"
  /\ cacheKeys = <<SHELL_CACHE>>
  /\ store = [n \in CacheNames |-> IF n = SHELL_CACHE THEN ShellEntries ELSE EmptyCache]
  /\ actKeys = {}
  /\ handlers = <<>>
  /\ puts = {}
  /\ lastOk = [u \in Hrefs |-> Undefined]
  /\ SyncIdle
  /\ PushIdle
  /\ now = Epoch
  /\ products = <<>>
  /\ savedSearches = <<>>
  /\ users = <<>>
  /\ currentUser = <<>>
  /\ permission = "default"
  /\ ops = <<>>
  /\ shown = <<>>
  /\ \E center \in Places, radiusKm \in Radii, us \in SeqsOf(UserPool, MaxUsers) :
       found = [center |-> center, radiusKm |-> radiusKm, us |-> us,
                called |-> FALSE, out |-> <<>>]

NextRadius == FindUsers

SpecRadius == InitRadius /\ [][NextRadius]_vars

----------------------------------------------------------------------------
(* The buyer form: handleBuyerSubmit and saveBuyerSearch *)

\* A form field is the sequence of its characters
DigitChars == <<"0", "1", "2", "3", "4", "5", "6", "7", "8", "9">>

IsDigit(c) == \E i \in 1..Len(DigitChars) : DigitChars[i] = c

DigitOf(c) == (CHOOSE i \in 1..Len(DigitChars) : DigitChars[i] = c) - 1

\* the field without its leading white space
RECURSIVE SkipSpaces(_)
SkipSpaces(str) ==
  IF str # <<>> /\ Head(str) = " " THEN SkipSpaces(Tail(str)) ELSE str

\* the longest prefix of decimal digits
RECURSIVE DigitPrefix(_)
DigitPrefix(str) ==
  IF str # <<>> /\ IsDigit(Head(str)) THEN <<Head(str)>> \o DigitPrefix(Tail(str)) ELSE <<>>

\* the value of a sequence of decimal digits, acc the value of those read
RECURSIVE DigitsValue(_, _)
DigitsValue(ds, acc) ==
  IF ds = <<>> THEN acc ELSE DigitsValue(Tail(ds), 10 * acc + DigitOf(Head(ds)))

\* parseInt(string), for fields without a 0x prefix: leading white space is
\* skipped, a sign is read, then the digits up to the first other
\* character; NaN when there is no digit
ParseInt(str) ==
  LET trimmed == SkipSpaces(str)
      signed == trimmed # <<>> /\ Head(trimmed) \in {"+", "-"}
      ds == DigitPrefix(IF signed THEN Tail(trimmed) ELSE trimmed)
  IN IF ds = <<>> THEN NaN
     ELSE IF signed /\ Head(trimmed) = "-" THEN Num(0 - DigitsValue(ds, 0))
     ELSE Num(DigitsValue(ds, 0))

\* what the radius field of the buyer form may hold when it is submitted
RadiusFields ==
  { <<>>, <<"0">>, <<"-", "5">>, <<"a", "b", "c">>, <<"2", "5">>, <<"7", ".", "5">>,
    <<" ", "1", "0">>, <<"1", "0", "k", "m">> }

\* handleBuyerSubmit: without a current user it returns at once; otherwise
\* it builds searchData, the radius with parseInt, and calls saveBuyerSearch,
\* whose first step is the getItem of 'savedSearches'
HandleBuyerSubmit(category, radiusField) ==
  /\ Len(ops) < MaxOps
  /\ ops' = Append(ops,
       IF currentUser = <<>>
       THEN Op("handleBuyerSubmit", "noUser", <<>>)
       ELSE Op("handleBuyerSubmit", "searchRead",
               [userId |-> currentUser[1].id, category |-> category,
                radius |-> ParseInt(radiusField)]))
  /\ UNCHANGED <<routerVars, pushes, syncVars, now, products, savedSearches, users, currentUser,
                 permission, shown, found>>

\* { id: Date.now(), ...searchData, createdAt: Date.now() }
NewSearch(searchData) ==
  Search(NewId, searchData.userId, searchData.category, searchData.radius)

\* saveBuyerSearch: getItem('savedSearches') settles. On success the search
\* is built, put at the head of the list that was read, and setItem is called.
SearchRead(t, ok) ==
  /\ ops[t].pc = "searchRead"
  /\ ops' = [ops EXCEPT ![t] =
       IF ok
       THEN [@ EXCEPT !.list = <<NewSearch(ops[t].data)>> \o savedSearches,
                      !.pc = "searchWrite"]
       ELSE [@ EXCEPT !.pc = Thrown(ops[t])]]
  /\ UNCHANGED <<routerVars, pushes, syncVars, now, products, savedSearches, users, currentUser,
                 permission, shown, found>>

\* saveBuyerSearch: setItem('savedSearches', searches) settles;
\* handleBuyerSubmit shows 'Recherche sauvegardee !' or its error message
SearchWrite(t, ok) ==
  /\ ops[t].pc = "searchWrite"
  /\ savedSearches' = IF ok THEN SetItem(ops[t].list, savedSearches) ELSE savedSearches
  /\ ops' = [ops EXCEPT ![t].pc = IF ok THEN "succeeded" ELSE Thrown(ops[t])]
  /\ UNCHANGED <<routerVars, pushes, syncVars, now, products, users, currentUser,
                 permission, shown, found>>

InitBuyer ==
  /\ phase = "activated"
  /\ cacheKeys = <<SHELL_CACHE>>
  /\ store = [n \in CacheNames |-> IF n = SHELL_CACHE THEN ShellEntries ELSE EmptyCache]
  /\ actKeys = {}
  /\ handlers = <<>>
  /\ puts = {}
  /\ lastOk = [u \in Hrefs |-> Undefined]
  /\ SyncIdle
  /\ PushIdle
  /\ now = Epoch
  /\ products = <<>>
  /\ savedSearches = <<>>
  /\ users = StoredUsers
  /\ currentUser \in {<<>>, <<User(1, "Versailles")>>}
  /\ permission = "default"
  /\ ops = <<>>
  /\ shown = <<>>
  /\ found = <<>>

NextBuyer ==
  \/ Tick
  \/ \E radiusField \in RadiusFields : HandleBuyerSubmit("all", radiusField)
  \/ \E t \in OpIds, ok \in BOOLEAN : SearchRead(t, ok)
  \/ \E t \in OpIds, ok \in BOOLEAN : SearchWrite(t, ok)

SpecBuyer == InitBuyer /\ [][NextBuyer]_vars

----------------------------------------------------------------------------
(* Properties of the cache router *)

RuntimeEntry(u) == store[RUNTIME_CACHE][u]

PutPending(h) == \E p \in puts : p.h = h

\* C1: every entry of the runtime cache was written for a GET request whose
\* network response had ok status (by a fetch of this run, or left by an
\* earlier one), every pending write is such a write, and a handler of a
\* non-GET request never has a cache write pending or stored.
C1_OnlyOkGetCached ==
  /\ \A u \in Hrefs :
       RuntimeEntry(u).kind = "entry" =>
         /\ RuntimeEntry(u).req.method = "GET"
         /\ RuntimeEntry(u).req.url = u
         /\ RuntimeEntry(u).res.ok
         /\ \/ RuntimeEntry(u).res.id = 0
            \/ /\ RuntimeEntry(u).res.id \in HandlerIds
               /\ handlers[RuntimeEntry(u).res.id].net = "ok"
               /\ handlers[RuntimeEntry(u).res.id].req = RuntimeEntry(u).req
  /\ \A p \in puts : p.req.method = "GET" /\ p.res.ok /\ handlers[p.h].net = "ok"
  /\ \A h \in HandlerIds :
       handlers[h].req.method # "GET" =>
         handlers[h].put \in {"none", "rejected"} /\ ~PutPending(h)

\* A POST to the API base got an ok response through networkFirst and wrote
\* nothing, while a GET of the same run was stored.
C1_Witness ==
  \E h, g \in HandlerIds :
    /\ handlers[h].req.method = "POST"
    /\ handlers[h].strategy = "networkFirst"
    /\ handlers[h].net = "ok"
    /\ handlers[h].put = "rejected"
    /\ handlers[g].put = "stored"
    /\ RuntimeEntry(handlers[g].req.url).res.id = g

\* C2: a navigation request whose network fetch failed and that had no cache
\* entry is answered with the offline fallback document, a defined response.
C2_NavigationGetsOfflineDocument ==
  \A h \in HandlerIds :
    ( /\ IsNavigation(handlers[h].req)
      /\ handlers[h].strategy = "networkFirst"
      /\ handlers[h].net = "failed"
      /\ handlers[h].via = "fallback" )
    => IsResponse(Head(handlers[h].out))

\* In staleWhileRevalidate, when the runtime cache holds an entry for the
\* request at the lookup, the caller is handed that entry; and when the
\* network fetch then fails, the step leaves the caches and the pending
\* writes as they are and the delivered response stays that entry, delivered
\* from the cache and not as a fallback.
C3_StaleServedOnFailureStep ==
  \A h \in HandlerIds :
    handlers[h].strategy = "staleWhileRevalidate" =>
      /\ ( /\ handlers[h].pc = "match"
           /\ handlers'[h].pc # "match"
           /\ RuntimeEntry(handlers[h].req.url).kind = "entry" )
         => /\ handlers'[h].cached = RuntimeEntry(handlers[h].req.url).res
            /\ handlers'[h].out = <<RuntimeEntry(handlers[h].req.url).res>>
      /\ ( /\ handlers[h].pc = "fetch"
           /\ handlers'[h].net = "failed"
           /\ IsResponse(handlers[h].cached) )
         => /\ handlers'[h].out = <<handlers[h].cached>>
            /\ handlers'[h].via = "cache"
            /\ handlers'[h].pc = "done"
            /\ handlers'[h].put = "none"
            /\ store' = store
            /\ puts' = puts

\* C3: every step keeps to the above: a stale entry present at the lookup is
\* what the caller of staleWhileRevalidate gets, also when the fetch fails.
C3_StaleServedOnFailure == [][C3_StaleServedOnFailureStep]_vars

\* A script was served stale from an entry stored in this run, and its
\* revalidation failed.
C3_Witness ==
  \E h \in HandlerIds :
    /\ handlers[h].strategy = "staleWhileRevalidate"
    /\ handlers[h].net = "failed"
    /\ handlers[h].pc = "done"
    /\ IsResponse(handlers[h].cached)
    /\ handlers[h].cached.id # 0
    /\ handlers[h].out = <<handlers[h].cached>>

\* C4: the strategy of an intercepted request is given by the first matching
\* rule (navigation or document, API base, script/style/worker, everything
\* else), and respondWith is called exactly once for it.
C4_ExpectedStrategy(req) ==
  IF req.mode = "navigate" \/ req.destination = "document" THEN "networkFirst"
  ELSE IF StartsWith(req.url, API_BASE) THEN "networkFirst"
  ELSE IF req.destination \in {"script", "style", "worker"} THEN "staleWhileRevalidate"
  ELSE "cacheFirst"

C4_FirstMatchingRule ==
  \A h \in HandlerIds :
    handlers[h].pc # "passthrough" =>
      /\ Len(handlers[h].calls) = 1
      /\ handlers[h].strategy = Head(handlers[h].calls)
      /\ handlers[h].strategy = C4_ExpectedStrategy(handlers[h].req)

\* A navigation to the API base went network-first and a script of the
\* application went stale-while-revalidate.
C4_Witness ==
  \E h, g \in HandlerIds :
    /\ handlers[h].req.mode = "navigate"
    /\ StartsWith(handlers[h].req.url, API_BASE)
    /\ handlers[h].strategy = "networkFirst"
    /\ handlers[g].req.destination = "script"
    /\ handlers[g].strategy = "staleWhileRevalidate"

\* C5: a request whose origin is neither the application's origin nor the
\* origin of the API base is not responded to, runs no strategy and writes
\* nothing to a cache.
C5_ForeignOriginPassesThrough ==
  \A h \in HandlerIds :
    OriginOf(handlers[h].req.url) \notin {SelfOrigin, OriginOf(API_BASE)} =>
      /\ handlers[h].calls = <<>>
      /\ handlers[h].strategy = "none"
      /\ handlers[h].put = "none"

\* C6: a networkFirst handling of a GET that started after an ok network
\* response for the same request had been returned, and whose own fetch
\* failed, returns the response of the most recent successful fetch.
C6_FailedFetchReturnsLastOk ==
  \A h \in HandlerIds :
    ( /\ handlers[h].strategy = "networkFirst"
      /\ handlers[h].req.method = "GET"
      /\ handlers[h].net = "failed"
      /\ handlers[h].pc = "done"
      /\ IsResponse(handlers[h].okAtStart) )
    => Head(handlers[h].out) \in {handlers[h].okAtStart, handlers[h].okAtEnd}

\* C7: cacheFirst returns a cached entry without fetching or writing; on a
\* miss it returns the network response and stores it only when it is ok and
\* the method is GET; when the fetch fails it returns the offline fallback
\* document.
C7_CacheFirst ==
  \A h \in HandlerIds :
    (handlers[h].strategy = "cacheFirst" /\ handlers[h].pc = "done") =>
      /\ handlers[h].via = "cache" =>
           /\ handlers[h].net = "none"
           /\ handlers[h].put = "none"
           /\ handlers[h].out = <<handlers[h].cached>>
      /\ handlers[h].net \in {"ok", "notok"} =>
           /\ handlers[h].out = <<Response(handlers[h].net = "ok", h)>>
           /\ handlers[h].put # "none" <=>
                (handlers[h].net = "ok" /\ handlers[h].req.method = "GET")
      /\ handlers[h].net = "failed" =>
           /\ handlers[h].via = "fallback"
           /\ IsResponse(Head(handlers[h].out))

\* C8: staleWhileRevalidate with a cached entry hands it over at the lookup
\* and fetches all the same, and an ok response is written over the entry;
\* without a cached entry the caller gets the network response, or the
\* offline fallback document when the fetch fails.
C8_StaleWhileRevalidate ==
  \A h \in HandlerIds :
    (handlers[h].strategy = "staleWhileRevalidate" /\ handlers[h].pc # "match") =>
      /\ handlers[h].net # "none"
      /\ IsResponse(handlers[h].cached) => handlers[h].out = <<handlers[h].cached>>
      /\ handlers[h].net = "ok" =>
           \/ PutPending(h)
           \/ handlers[h].put = "stored"
      /\ (~IsResponse(handlers[h].cached) /\ handlers[h].net \in {"ok", "notok"}) =>
           handlers[h].out = <<Response(handlers[h].net = "ok", h)>>
      /\ (~IsResponse(handlers[h].cached) /\ handlers[h].net = "failed"
            /\ handlers[h].pc = "done") =>
           IsResponse(Head(handlers[h].out))

C9_Current == {SHELL_CACHE, RUNTIME_CACHE}

C9_OldGone == phase = "activated" => SeqToSet(cacheKeys) \subseteq C9_Current

C9_OnlyActivateDeletesStep ==
  /\ \A k \in SeqToSet(cacheKeys) \ SeqToSet(cacheKeys') :
       phase = "activating" /\ k \notin C9_Current
  /\ phase \in {"installed", "activating"} =>
       \A k \in C9_Current : store'[k] = store[k]

\* C9: when the activate handler has run, no generation other than the two of
\* the current version exists; the handler leaves the generations of the
\* current version and their contents as they are; and only the activate
\* handler ever removes a generation.
C9_ActivateCleans == []C9_OldGone /\ [][C9_OnlyActivateDeletesStep]_vars

\* Both generations of the old version and a runtime generation of the
\* current version existed; the deletions have settled.
C9_Witness ==
  /\ phase = "activating"
  /\ actKeys = {OLD_SHELL_CACHE, OLD_RUNTIME_CACHE, RUNTIME_CACHE, SHELL_CACHE}
  /\ cacheKeys = <<RUNTIME_CACHE, SHELL_CACHE>>
  /\ store[RUNTIME_CACHE] = WarmRuntimeContents
  /\ store[OLD_SHELL_CACHE] = EmptyCache

----------------------------------------------------------------------------
(* Properties of the drain pass *)

PassOver(d) == drains[d].pc \in {"notify", "done"}

\* the tasks of the snapshot, from index i on, that satisfy stays, in order
RECURSIVE Staying(_, _, _)
Staying(dr, stays(_, _), i) ==
  IF i > Len(dr.all) THEN <<>>
  ELSE (IF stays(dr, i) THEN <<dr.all[i]>> ELSE <<>>) \o Staying(dr, stays, i + 1)

ReplayFailed(dr, i) == ~dr.replies[i]

ReplayFailedOrDeleteFailed(dr, i) == ~dr.replies[i] \/ dr.deletes[i] = "failed"

\* C10 as stated: after a pass with no concurrent pass, the queue holds
\* exactly the tasks whose replay did not return an ok response, in their
\* original order.
C10_LeftAreFailedReplays ==
  \A d \in DrainIds :
    PassOver(d) => drains[d].left = Staying(drains[d], ReplayFailed, 1)

\* C10 as amended: after a pass with no concurrent pass, the queue holds
\* exactly the tasks whose replay did not return an ok response or whose
\* deletion failed, in their original order; a task is removed if and only if
\* its replay returned an ok response and its deletion succeeded.
C10_LeftAreFailedReplaysOrDeletes ==
  \A d \in DrainIds :
    PassOver(d) =>
      /\ Len(drains[d].replies) = Len(drains[d].all)
      /\ Len(drains[d].deletes) = Len(drains[d].all)
      /\ drains[d].left = Staying(drains[d], ReplayFailedOrDeleteFailed, 1)
      /\ \A i \in 1..Len(drains[d].all) :
           (\E j \in 1..Len(drains[d].left) : drains[d].left[j] = drains[d].all[i])
             <=> ~(drains[d].replies[i] /\ drains[d].deletes[i] = "done")

\* A pass over three tasks: the first and third replays were ok and deleted,
\* the second failed and is the one task left.
C10_Witness ==
  \E d \in DrainIds :
    /\ drains[d].pc = "done"
    /\ Len(drains[d].all) = 3
    /\ drains[d].replies = <<TRUE, FALSE, TRUE>>
    /\ drains[d].deletes = <<"done", "none", "done">>
    /\ drains[d].left = <<drains[d].all[2]>>
    /\ queue = drains[d].left

\* the keys of the tasks pass d has sent to the remote endpoint so far
SentBy(d) == {drains[d].all[k].id : k \in 1..drains[d].i}

\* the keys of the tasks whose replay by pass d returned an ok response
AcceptedFrom(d) ==
  {drains[d].all[k].id : k \in {j \in 1..Len(drains[d].replies) : drains[d].replies[j]}}

C11_OnePassInFlight ==
  \A d1, d2 \in DrainIds : Running(d1) /\ Running(d2) => d1 = d2

C11_NoDoubleReplay ==
  \A d1, d2 \in DrainIds :
    d1 # d2 /\ Running(d1) /\ Running(d2) => AcceptedFrom(d1) \cap SentBy(d2) = {}

\* C11: for any interleaving of 'sync-tasks' events at most one drain pass
\* is in flight at a time, and no task whose replay was accepted by the
\* remote endpoint is sent to it again by an overlapping pass.
C11_DrainsSerialized == C11_OnePassInFlight /\ C11_NoDoubleReplay

\* C12 as stated: every pass started by a 'sync-tasks' event that has come
\* to its end has sent exactly one SYNC_DONE message.
C12_EveryPassSendsSyncDone ==
  \A d \in DrainIds :
    drains[d].tag = "sync-tasks" /\ ~Running(d) /\ drains[d].pc # "notify"
      => sent[d] = 1

\* C12 as amended: a pass that has read the queue sends exactly one
\* SYNC_DONE message, after its last replay attempt (and the deletion that
\* follows it) has settled, whatever the outcomes of the attempts, and
\* never before; a pass that is ignored or that could not open the database
\* or read the queue sends none.
C12_SyncDoneAfterLastAttempt ==
  \A d \in DrainIds :
    LET dr == drains[d]
        settled == /\ dr.i = Len(dr.all)
                   /\ Len(dr.replies) = Len(dr.all)
                   /\ Len(dr.deletes) = Len(dr.all)
    IN /\ sent[d] \in {0, 1}
       /\ sent[d] = 1 <=> dr.pc = "done"
       /\ dr.pc \in {"notify", "done"} => dr.tag = "sync-tasks" /\ settled
       /\ dr.pc \in {"replay", "delete"} => ~settled
       /\ dr.pc \in {"open", "getAll", "rejected", "ignored"} => dr.all = <<>> /\ dr.i = 0

\* A pass over two tasks has sent its message: the first replay
\* failed, the second returned ok and its deletion failed.
C12_Witness ==
  \E d \in DrainIds :
    /\ drains[d].pc = "done"
    /\ sent[d] = 1
    /\ drains[d].replies = <<FALSE, TRUE>>
    /\ drains[d].deletes = <<"none", "failed">>

----------------------------------------------------------------------------
(* Properties of the page script *)

\* search i of the collection notifyBuyers read is a match for its product
C13_Matches(op, i) ==
  LET search == op.searches[i]
      product == op.product[1]
  IN /\ search.category \in {"", "all", product.category}
     /\ product.location # NoLocation
     /\ \E k \in 1..Len(op.us) :
          /\ op.us[k].id = search.userId
          /\ op.us[k].location # NoLocation
          /\ WithinKm(CalculateDistance(product.location, op.us[k].location), search.radius)

C13_EventsFor(op, i) == {k \in 1..Len(op.sends) : op.sends[k].search = i}

\* C13: a dispatch that has read the searches and the users has emitted
\* exactly one event, carrying the product's id, for every search that
\* matches (category unset, 'all' or the product's; product located; owner
\* stored and located; distance within the radius) and none for any other
\* search, so that a user who owns k matching searches gets k events.
C13_OneEventPerMatch ==
  \A t \in OpIds :
    ops[t].dispatch = "done" =>
      /\ \A i \in 1..Len(ops[t].searches) :
           Cardinality(C13_EventsFor(ops[t], i)) = IF C13_Matches(ops[t], i) THEN 1 ELSE 0
      /\ \A k \in 1..Len(ops[t].sends) :
           /\ ops[t].sends[k].search \in 1..Len(ops[t].searches)
           /\ ops[t].sends[k].productId = ops[t].product[1].id
      /\ \A u \in {ops[t].searches[i].userId : i \in 1..Len(ops[t].searches)} :
           Cardinality({k \in 1..Len(ops[t].sends) :
                          ops[t].searches[ops[t].sends[k].search].userId = u})
             = Cardinality({i \in 1..Len(ops[t].searches) :
                              ops[t].searches[i].userId = u /\ C13_Matches(ops[t], i)})

\* A product of category Fruits created in Paris, with a Fruits search and
\* a Legumes search of the buyer in Versailles, both of radius 50: one
\* event, for the Fruits search.
C13_Witness ==
  \E t \in OpIds :
    /\ ops[t].dispatch = "done"
    /\ ops[t].product[1].category = "Fruits"
    /\ ops[t].product[1].location = "Paris"
    /\ ops[t].searches = <<Search(1, 1, "Fruits", Num(50)), Search(2, 1, "Legumes", Num(50))>>
    /\ Len(ops[t].sends) = 1
    /\ ops[t].sends[1].search = 1

C14_AbandonedStep ==
  \A t \in OpIds :
    /\ ops[t].pc \in {"readSearches", "readUsers"} /\ ops'[t].dispatch = "abandoned"
         => /\ ops'[t].pc = "succeeded"
            /\ ops'[t].sends = <<>>
            /\ shown' = shown
            /\ products' = products
            /\ \E k \in 1..Len(products') : products'[k] = ops[t].product[1]
    /\ ops[t].dispatch = "abandoned"
         => /\ ops'[t] = ops[t]
            /\ products' = products
            /\ shown' = shown

\* C14: when the read of the saved searches or of the users fails during
\* notifyBuyers, the dispatch is abandoned without an event and without
\* raising: handleSellerSubmit ends on its success path, the product saved
\* just before is still in the products collection, and no later step takes
\* the dispatch up again.
C14_ReadFailureAbandonsDispatch == [][C14_AbandonedStep]_vars

\* The read of the users failed after the searches were read: the
\* submission has succeeded and its product is the stored one
C14_Witness ==
  \E t \in OpIds :
    /\ ops[t].dispatch = "abandoned"
    /\ ops[t].pc = "succeeded"
    /\ ops[t].searches # <<>>
    /\ products = <<ops[t].product[1]>>

\* user i of the input is located and within the radius of the center
C15_InRadius(i) ==
  /\ found.us[i].location # NoLocation
  /\ WithinKm(CalculateDistance(found.center, found.us[i].location), found.radiusKm)

\* C15: findUsersInRadius returns exactly the users that have a location
\* and whose distance to the center is <= radiusKm, in their input order;
\* a user without a location is never returned and raises no error; an
\* empty input gives an empty output; with radius 0 only users located at
\* the center are returned.
C15_RadiusFilter ==
  found.called =>
    /\ \E f \in [1..Len(found.out) -> 1..Len(found.us)] :
         /\ \A j, k \in 1..Len(found.out) : j < k => f[j] < f[k]
         /\ \A k \in 1..Len(found.out) : found.out[k] = found.us[f[k]]
         /\ {f[k] : k \in 1..Len(found.out)} = {i \in 1..Len(found.us) : C15_InRadius(i)}
    /\ \A k \in 1..Len(found.out) : found.out[k].location # NoLocation
    /\ found.us = <<>> => found.out = <<>>
    /\ found.radiusKm = Num(0) =>
         /\ \A k \in 1..Len(found.out) : found.out[k].location = found.center
         /\ \A i \in 1..Len(found.us) :
              found.us[i].location = found.center
                => \E k \in 1..Len(found.out) : found.out[k] = found.us[i]

\* A call with radius 0 over a user without a location and a user at the
\* center has returned the second only
C15_Witness ==
  /\ found.called
  /\ found.radiusKm = Num(0)
  /\ found.center = "Paris"
  /\ found.us = <<User(3, NoLocation), User(4, "Paris")>>
  /\ found.out = <<User(4, "Paris")>>

C16_WriterStep ==
  \A t \in OpIds :
    /\ ops[t].pc = "saveRead" /\ ops'[t].pc = "saveWrite"
         => ops'[t].list = <<ops'[t].product[1]>> \o products
    /\ ops[t].pc = "updRead" /\ ops'[t].pc = "updWrite"
         => \/ ops'[t].list = <<>>
            \/ /\ Len(ops'[t].list) = Len(products)
               /\ \A k \in 1..Len(products) :
                    IF products[k].id = ops[t].data.productId
                    THEN /\ ops'[t].list[k].id = products[k].id
                         /\ ops'[t].list[k].status = ops[t].data.status
                    ELSE ops'[t].list[k] = products[k]
    /\ ops[t].pc \in {"saveWrite", "updWrite"}
         => /\ ops'[t].list = ops[t].list
            /\ ops'[t].pc \in {"returned", "true"} => products' = ops[t].list

\* C16: a writer of 'products' reads the whole collection, changes its own
\* copy, and on success the collection becomes that copy, whatever was
\* stored since it read: writers are not serialized, and an interleaving in
\* which two writers read before either writes leaves only the update of
\* the one that writes last, although both report success.
C16_WholeCollectionWrite == [][C16_WriterStep]_vars

\* Two saveProduct calls have both returned their product, and the
\* collection holds the second product and no product with the id of the
\* first
C16_Witness ==
  \E t1, t2 \in OpIds :
    /\ ops[t1].kind = "saveProduct" /\ ops[t1].pc = "returned"
    /\ ops[t2].kind = "saveProduct" /\ ops[t2].pc = "returned"
    /\ ops[t1].product[1].id # ops[t2].product[1].id
    /\ \E k \in 1..Len(products) : products[k] = ops[t2].product[1]
    /\ \A k \in 1..Len(products) : products[k].id # ops[t1].product[1].id

\* C17: all stored products have pairwise distinct ids
C17_DistinctProductIds ==
  \A j, k \in 1..Len(products) : products[j].id = products[k].id => j = k

\* C18: every stored saved search has a radius that is a number greater
\* than 0
C18_RadiusPositive ==
  \A k \in 1..Len(savedSearches) : Positive(savedSearches[k].radius)

C19_TimerBoundsFetch ==
  \A h \in HandlerIds :
    /\ handlers[h].net = "pending" <=> handlers[h].timer = "armed"
    /\ handlers[h].net \in {"ok", "notok"} => handlers[h].timer = "cleared"
    /\ handlers[h].timer = "fired" =>
         /\ handlers[h].net = "failed"
         /\ handlers[h].pc \in {"nfmatch", "fallback", "done"}

\* C19: a fetch of a strategy and its timer settle each other: the timer is
\* armed exactly while the fetch is pending, a fetch that settles first
\* clears it, and a fetch the timer aborts takes the failure path of its
\* strategy, at the end of which the request has received a response, from
\* the cache or the offline fallback.
C19_AbortedFetchGetsResponse ==
  /\ C19_TimerBoundsFetch
  /\ \A h \in HandlerIds :
       handlers[h].timer = "fired" /\ handlers[h].pc = "done"
         => /\ handlers[h].via \in {"cache", "fallback"}
            /\ IsResponse(handlers[h].out[1])


\* C21: every replay attempt of a drain pass is bounded by the timeout and
\* abort of swFetch, so a pass that has started a replay always comes to the
\* point where it sends SYNC_DONE, even when the endpoint never responds.
C21_DrainPassTerminates ==
  \A d \in 1..MaxDrains :
    (d \in DrainIds /\ drains[d].pc = "replay")
      ~> (d \in DrainIds /\ drains[d].pc \in {"notify", "done"})

\* C22: a handled request of any method and class whose fetch failed
\* (rejection or timeout) ends with a defined response, from the cache or the
\* offline fallback, or with the request held as a task in the sync queue;
\* its strategy never ends with an absent response.
C22_FailureRecoveredLocally ==
  \A h \in HandlerIds :
    (handlers[h].strategy # "none" /\ handlers[h].net = "failed"
       /\ handlers[h].pc = "done")
    => \/ handlers[h].out # <<>> /\ IsResponse(Head(handlers[h].out))
       \/ queue # <<>>

\* the step of a completing saveProduct call: one record more, at the
\* front, with status 'disponible', before the records that were stored
C23_SaveStep(t) ==
  /\ Len(products') = Len(products) + 1
  /\ Head(products').status = "disponible"
  /\ Tail(products') = products

\* the step of a completing updateProductStatus(id, s) call: as many
\* records, in the same order; a record with that id changes in status and
\* updatedAt only, every other record is unchanged
C23_UpdateStep(t) ==
  /\ Len(products') = Len(products)
  /\ \A k \in 1..Len(products) :
       IF products[k].id = ops[t].data.productId
       THEN products'[k] = [products[k] EXCEPT !.status = products'[k].status,
                                               !.updatedAt = products'[k].updatedAt]
       ELSE products'[k] = products[k]

C23_FrameStep ==
  /\ \A k \in 1..Len(products) :
       \E j \in 1..Len(products') : products'[j].id = products[k].id
  /\ \A t \in OpIds :
       /\ (ops[t].pc = "saveWrite" /\ ops'[t].pc = "returned") => C23_SaveStep(t)
       /\ (ops[t].pc = "updWrite" /\ ops'[t].pc = "true") => C23_UpdateStep(t)
       /\ (ops[t].pc \in {"saveWrite", "updWrite"}
             /\ ops'[t].pc \in {"threw", "false"}) => products' = products
  /\ (\A t \in OpIds : ops[t].pc \notin {"saveWrite", "updWrite"})
       => products' = products

\* C23: over calls of saveProduct and updateProductStatus that do not
\* overlap, no step removes a product record: a saveProduct adds one record
\* at the front with status 'disponible', an updateProductStatus(id, s)
\* changes only status and updatedAt of the records with that id and leaves
\* the other records, their number and their order as they were (the whole
\* collection when no record has that id).
C23_NoProductRemoved == [][C23_FrameStep]_vars

\* the push messages that carry no data, a text that is not JSON, or an
\* object without any of the three fields
C24_NothingUsable(data) ==
  data.kind = "absent" \/ data.text \in {"", "Marche ouvert", "{}", "42", "null"}

\* C24: every push event ends with exactly one showNotification call,
\* whatever its data; the notification carries a data.url and the actions
\* 'open' and 'done'; title, body and url are the fixed defaults (url '/')
\* when the payload is absent, is not valid JSON or lacks the field.
C24_OneNotificationPerPush ==
  \A k \in 1..Len(pushes) :
    /\ Len(pushes[k].shown) = 1
    /\ LET n == pushes[k].shown[1]
           data == pushes[k].data
       IN /\ n.options.data.url \in {"/", "/produits"}
          /\ n.options.actions = <<"open", "done">>
          /\ C24_NothingUsable(data) =>
               /\ n.title = "Nouvelle notification"
               /\ n.options.body = DefaultBody
               /\ n.options.data.url = "/"
          /\ (data.kind = "text" /\ data.text = "{\"body\":\"Tomates\"}") =>
               /\ n.title = "Nouvelle notification"
               /\ n.options.body = "Tomates"
               /\ n.options.data.url = "/"

\* a step of the fetch handling: a fetch event is dispatched, a strategy
\* moves on, or one of its writes is issued or settles
C25_StrategyStep == handlers' # handlers \/ puts' # puts

C25_ShellStep ==
  /\ store'[SHELL_CACHE] # store[SHELL_CACHE] =>
       /\ phase = "parsed" /\ phase' = "installed"
       /\ \A u \in Hrefs : store'[SHELL_CACHE][u] # store[SHELL_CACHE][u]
                              => store'[SHELL_CACHE][u] = ShellEntries[u]
  /\ C25_StrategyStep =>
       /\ \A n \in CacheNames \ {RUNTIME_CACHE} : store'[n] = store[n]
       /\ SeqToSet(cacheKeys') \subseteq SeqToSet(cacheKeys) \cup {RUNTIME_CACHE}

\* C25: the contents of the shell generation change only in the step of the
\* install handler, and only to the entries of the APP_SHELL manifest; no
\* step of cacheFirst, networkFirst or staleWhileRevalidate adds, overwrites
\* or removes an entry of the shell generation: what a strategy writes goes
\* to the runtime generation of the current version only.
C25_ShellWrittenOnlyByInstall == [][C25_ShellStep]_vars

\* A strategy has stored a network response for a URL of the manifest: the
\* runtime generation holds it and the shell generation holds its own entry
C25_Witness ==
  \E h \in HandlerIds :
    /\ handlers[h].put = "stored"
    /\ ShellEntries[handlers[h].req.url].kind = "entry"
    /\ store[RUNTIME_CACHE][handlers[h].req.url] = Entry(handlers[h].req, Response(TRUE, h))
    /\ store[SHELL_CACHE] = ShellEntries
====
